---- MODULE Spec2Model ----
(***************************************************************************)
(* calbox: an infix calculator.  Source text is tokenized, compiled by a   *)
(* chain of precedence groups into a linear opcode sequence (a Program),   *)
(* executed on a calculation context (a stack plus named registers), and   *)
(* optionally constant-folded by Program.optimize.                         *)
(*                                                                         *)
(* Text is a sequence of one-character strings.  JavaScript numbers are    *)
(* modelled as exact extended rationals n/d (d = 0 encodes NaN, Infinity   *)
(* and -Infinity); a result that is irrational or leaves the range MaxAbs  *)
(* is kept as an uninterpreted term of its operands.  Signed zero and      *)
(* rounding are not modelled.                                              *)
(***************************************************************************)
EXTENDS Integers, Sequences, FiniteSets, TLC

(***************************************************************************)
(* Numbers                                                                 *)
(***************************************************************************)
MaxAbs == 30000

Abs(i) == IF i < 0 THEN -i ELSE i
Sign(i) == IF i < 0 THEN -1 ELSE IF i > 0 THEN 1 ELSE 0

RECURSIVE GCD(_, _)
GCD(a, b) == IF b = 0 THEN a ELSE GCD(b, a % b)

Num(n, d) == [n |-> n, d |-> d, x |-> <<>>]
IntNum(i) == Num(i, 1)
Zero == IntNum(0)
One == IntNum(1)
NaN == Num(0, 0)
Infinity == Num(1, 0)

Normalize(n, d) ==
  IF d = 0 THEN Num(Sign(n), 0)
  ELSE LET g == GCD(Abs(n), Abs(d))
           s == IF d < 0 THEN -1 ELSE 1
       IN Num((s * n) \div g, (s * d) \div g)

IsOpaque(v) == v.x # <<>>
IsNaN(v) == v.n = 0 /\ v.d = 0 /\ v.x = <<>>
Fits(v) == Abs(v.n) <= MaxAbs /\ v.d <= MaxAbs

\* An uninterpreted result: the operation code and its two operands.
Enc(v) == <<v.n, v.d, Len(v.x)>> \o v.x
Opaque(code, a, b) == [n |-> 0, d |-> 0, x |-> <<code>> \o Enc(a) \o Enc(b)]
Checked(code, a, b, r) == IF Fits(r) THEN r ELSE Opaque(code, a, b)

\* a + b
JsAdd(a, b) ==
  IF IsNaN(a) \/ IsNaN(b) THEN NaN
  ELSE IF IsOpaque(a) \/ IsOpaque(b) THEN Opaque(1, a, b)
  ELSE IF a.d = 0 /\ b.d = 0 THEN (IF a.n = b.n THEN a ELSE NaN)
  ELSE Checked(1, a, b, Normalize(a.n * b.d + b.n * a.d, a.d * b.d))

\* -a
JsNeg(a) == IF IsOpaque(a) THEN Opaque(5, a, Zero) ELSE Num(-a.n, a.d)

\* a * b
JsMul(a, b) ==
  IF IsNaN(a) \/ IsNaN(b) THEN NaN
  ELSE IF IsOpaque(a) \/ IsOpaque(b) THEN Opaque(2, a, b)
  ELSE Checked(2, a, b, Normalize(a.n * b.n, a.d * b.d))

\* b / a
JsDiv(b, a) ==
  IF IsNaN(a) \/ IsNaN(b) THEN NaN
  ELSE IF IsOpaque(a) \/ IsOpaque(b) THEN Opaque(3, b, a)
  ELSE LET s == IF a.n < 0 THEN -1 ELSE 1
       IN Checked(3, b, a, Normalize(b.n * a.d * s, b.d * Abs(a.n)))

\* acc * b^k, given up as soon as it leaves the range
RECURSIVE PowNat(_, _, _)
PowNat(acc, b, k) ==
  IF k = 0 \/ ~Fits(acc) THEN acc
  ELSE PowNat(Normalize(acc.n * b.n, acc.d * b.d), b, k - 1)

\* left ** right
JsPow(left, right) ==
  IF IsNaN(right) THEN NaN
  ELSE IF right = Zero THEN One
  ELSE IF IsNaN(left) THEN NaN
  ELSE IF IsOpaque(left) \/ IsOpaque(right) THEN Opaque(4, left, right)
  ELSE IF right.d = 0 THEN
    \* exponent +-Infinity
    IF left.d # 0 /\ Abs(left.n) = left.d THEN NaN
    ELSE IF (left.d = 0 \/ Abs(left.n) > left.d) = (right.n > 0) THEN Infinity
    ELSE Zero
  ELSE IF left.d = 0 THEN
    \* base +-Infinity
    IF right.n < 0 THEN Zero
    ELSE IF left.n < 0 /\ right.d = 1 /\ right.n % 2 = 1 THEN JsNeg(Infinity)
    ELSE Infinity
  ELSE IF left.n = 0 THEN (IF right.n > 0 THEN Zero ELSE Infinity)
  ELSE IF right.d # 1 THEN
    \* fractional exponent
    IF left.n < 0 THEN NaN
    ELSE IF left = One THEN One
    ELSE Opaque(4, left, right)
  ELSE IF Abs(left.n) = left.d THEN
    (IF left.n > 0 \/ right.n % 2 = 0 THEN One ELSE IntNum(-1))
  ELSE LET p == PowNat(One, left, Abs(right.n))
       IN IF ~Fits(p) THEN Opaque(4, left, right)
          ELSE IF right.n > 0 THEN p
          ELSE JsDiv(One, p)

(***************************************************************************)
(* JavaScript values held by tokens and opcodes: null, a string, a number  *)
(***************************************************************************)
JsNull == [type |-> "null", str |-> <<>>, num |-> Zero]
JsString(s) == [type |-> "string", str |-> s, num |-> Zero]
JsNumber(v) == [type |-> "number", str |-> <<>>, num |-> v]

\* `${v}` of a string or null
TemplateString(v) == IF v.type = "null" THEN <<"n", "u", "l", "l">> ELSE v.str

Digits == {"0", "1", "2", "3", "4", "5", "6", "7", "8", "9"}
NonZeroDigits == Digits \ {"0"}
Letters ==
  {"a", "b", "c", "d", "e", "f", "g", "h", "i", "j", "k", "l", "m",
   "n", "o", "p", "q", "r", "s", "t", "u", "v", "w", "x", "y", "z",
   "A", "B", "C", "D", "E", "F", "G", "H", "I", "J", "K", "L", "M",
   "N", "O", "P", "Q", "R", "S", "T", "U", "V", "W", "X", "Y", "Z", "_"}

DigitValue(c) ==
  CASE c = "0" -> 0 [] c = "1" -> 1 [] c = "2" -> 2 [] c = "3" -> 3
    [] c = "4" -> 4 [] c = "5" -> 5 [] c = "6" -> 6 [] c = "7" -> 7
    [] c = "8" -> 8 [] c = "9" -> 9

CharAt(buffer, i) == IF i >= 1 /\ i <= Len(buffer) THEN buffer[i] ELSE ""

\* number of consecutive digits of buffer from position i (1-based)
RECURSIVE DigitsFrom(_, _)
DigitsFrom(buffer, i) ==
  IF CharAt(buffer, i) \in Digits THEN 1 + DigitsFrom(buffer, i + 1) ELSE 0

\* value of the digit string buffer[i .. i+k-1], continuing from acc
RECURSIVE DigitsNumber(_, _, _, _)
DigitsNumber(buffer, i, k, acc) ==
  IF k = 0 THEN acc
  ELSE DigitsNumber(buffer, i + 1, k - 1,
                    JsAdd(JsMul(acc, IntNum(10)), IntNum(DigitValue(buffer[i]))))

(***************************************************************************)
(* Tokens                                                                  *)
(***************************************************************************)
\* _Kind, with the symbol of each _KindDefinition (<<>> where it is null),
\* in the order of _tokenDefinitions
TokenDefinitions ==
  << [kind |-> "add", symbol |-> <<"+">>],
     [kind |-> "subtract", symbol |-> <<"-">>],
     [kind |-> "multiply", symbol |-> <<"*">>],
     [kind |-> "divide", symbol |-> <<"/">>],
     [kind |-> "power", symbol |-> <<"*", "*">>],
     [kind |-> "number", symbol |-> <<>>],
     [kind |-> "identifier", symbol |-> <<>>],
     [kind |-> "assign", symbol |-> <<"=">>],
     [kind |-> "openBracket", symbol |-> <<"(">>],
     [kind |-> "closeBracket", symbol |-> <<")">>] >>

Token(kind, value) == [kind |-> kind, value |-> value]

\* buffer.startsWith(symbol, i), i 1-based
StartsWith(buffer, symbol, i) ==
  /\ i + Len(symbol) - 1 <= Len(buffer)
  /\ \A j \in 1 .. Len(symbol) : buffer[i + j - 1] = symbol[j]

\* _startCharacterTokens.get(c): the definitions whose symbol starts with c
StartCharacterTokens(c) ==
  {k \in 1 .. Len(TokenDefinitions) :
     /\ TokenDefinitions[k].symbol # <<>>
     /\ TokenDefinitions[k].symbol[1] = c}

\* _findToken: the longest symbol among the candidates that matches at i;
\* 0 when none does
FindToken(candidates, buffer, i) ==
  LET matching == {k \in candidates :
                     StartsWith(buffer, TokenDefinitions[k].symbol, i)}
  IN IF matching = {} THEN 0
     ELSE CHOOSE k \in matching :
            \A o \in matching :
              Len(TokenDefinitions[o].symbol) <= Len(TokenDefinitions[k].symbol)

\* /(?:0|[1-9]\d*)(?:\.\d+)?(?:[eE][+-]?\d+)?/y at position i: the lengths of
\* the three groups
IntegerPartLen(buffer, i) ==
  IF CharAt(buffer, i) = "0" THEN 1
  ELSE IF CharAt(buffer, i) \in NonZeroDigits THEN 1 + DigitsFrom(buffer, i + 1)
  ELSE 0

FractionLen(buffer, i) ==
  IF CharAt(buffer, i) = "." /\ DigitsFrom(buffer, i + 1) > 0
  THEN 1 + DigitsFrom(buffer, i + 1)
  ELSE 0

ExponentSignLen(buffer, i) == IF CharAt(buffer, i) \in {"+", "-"} THEN 1 ELSE 0

ExponentLen(buffer, i) ==
  IF CharAt(buffer, i) \in {"e", "E"}
     /\ DigitsFrom(buffer, i + 1 + ExponentSignLen(buffer, i + 1)) > 0
  THEN 1 + ExponentSignLen(buffer, i + 1)
         + DigitsFrom(buffer, i + 1 + ExponentSignLen(buffer, i + 1))
  ELSE 0

\* length of the number match at i, 0 when the pattern does not match
NumberMatch(buffer, i) ==
  LET il == IntegerPartLen(buffer, i)
  IN IF il = 0 THEN 0
     ELSE il + FractionLen(buffer, i + il)
             + ExponentLen(buffer, i + il + FractionLen(buffer, i + il))

\* /[_a-zA-Z][_a-zA-Z0-9]*/y at position i
RECURSIVE IdentifierTail(_, _)
IdentifierTail(buffer, i) ==
  IF CharAt(buffer, i) \in Letters \cup Digits
  THEN 1 + IdentifierTail(buffer, i + 1)
  ELSE 0

IdentifierMatch(buffer, i) ==
  IF CharAt(buffer, i) \in Letters THEN 1 + IdentifierTail(buffer, i + 1) ELSE 0

\* +text for a text the number pattern matched
UnaryPlus(text) ==
  LET Exponent(at, el) ==
        IF el = 0 THEN Zero
        ELSE IF CharAt(text, at) = "-"
          THEN JsNeg(DigitsNumber(text, at + 1, el - 2, Zero))
        ELSE DigitsNumber(text, at + ExponentSignLen(text, at),
                          el - 1 - ExponentSignLen(text, at), Zero)
      Fraction(il, fl) ==
        IF fl = 0 THEN Zero
        ELSE JsDiv(DigitsNumber(text, il + 2, fl - 1, Zero),
                   JsPow(IntNum(10), IntNum(fl - 1)))
      Value(il, fl, el) ==
        IF il = 0 \/ il + fl + el # Len(text) THEN NaN
        ELSE JsMul(JsAdd(DigitsNumber(text, 1, il, Zero), Fraction(il, fl)),
                   JsPow(IntNum(10), Exponent(il + fl + 2, el)))
      WithFraction(il, fl) == Value(il, fl, ExponentLen(text, il + fl + 1))
      WithInteger(il) == WithFraction(il, FractionLen(text, il + 1))
  IN WithInteger(IntegerPartLen(text, 1))

SubSeqFrom(buffer, i, len) == SubSeq(buffer, i, i + len - 1)

NoError == [name |-> "none", message |-> "", buffer |-> <<>>, offset |-> -1]
\* a CalculationParseException that counts the offset from 1
ParseExceptionFromOne(message, buffer, offset) ==
  [name |-> "CalculationParseException", message |-> message,
   buffer |-> buffer, offset |-> offset + 1]
\* new CalculationParseException(message, buffer, offset); offset -1 and an
\* empty buffer stand for undefined
ParseException(message, buffer, offset) ==
  [name |-> "CalculationParseException", message |-> message,
   buffer |-> buffer, offset |-> offset]
CalculationException(message) ==
  [name |-> "CalculationException", message |-> message,
   buffer |-> <<>>, offset |-> -1]
\* a TypeError of the runtime (a property read of null or undefined, a call of
\* a missing method)
TypeError == [name |-> "TypeError", message |-> "", buffer |-> <<>>, offset |-> -1]

\* _tokenize, run to its end (Array.from): the tokens, or the error thrown.
\* i is 1-based, the offset it reports 0-based.
RECURSIVE TokenizeFrom(_, _, _)
TokenizeFrom(buffer, i, tokens) ==
  IF i > Len(buffer) THEN [tokens |-> tokens, error |-> NoError]
  ELSE IF buffer[i] = " " THEN TokenizeFrom(buffer, i + 1, tokens)
  ELSE LET single == FindToken(StartCharacterTokens(buffer[i]), buffer, i)
           nm == NumberMatch(buffer, i)
           im == IdentifierMatch(buffer, i)
       IN IF single # 0 THEN
            TokenizeFrom(buffer, i + Len(TokenDefinitions[single].symbol),
                         Append(tokens, Token(TokenDefinitions[single].kind, JsNull)))
          ELSE IF nm > 0 THEN
            TokenizeFrom(buffer, i + nm,
                         Append(tokens, Token("number",
                                              JsString(SubSeqFrom(buffer, i, nm)))))
          ELSE IF im > 0 THEN
            TokenizeFrom(buffer, i + im,
                         Append(tokens, Token("identifier",
                                              JsString(SubSeqFrom(buffer, i, im)))))
          ELSE [tokens |-> tokens,
                error |-> ParseException("Found a strange character in the source",
                                         buffer, i - 1)]

Tokenize(buffer) == TokenizeFrom(buffer, 1, <<>>)

(***************************************************************************)
(* Opcodes and the compiler                                                *)
(***************************************************************************)
Opcode(kind, value) == [kind |-> kind, value |-> value]

\* _Token.toOpcode -> _KindDefinition.toOpcode: the number definition
\* overrides it with +token.value, every other kind copies kind and value
ToOpcode(token) ==
  IF token.kind = "number"
  THEN Opcode(token.kind,
              JsNumber(IF token.value.type = "null" THEN Zero
                       ELSE UnaryPlus(token.value.str)))
  ELSE Opcode(token.kind, token.value)

\* tokens[cursor], cursor 0-based as in the source
IsDefined(tokens, cursor) == cursor >= 0 /\ cursor < Len(tokens)
TokenAt(tokens, cursor) == tokens[cursor + 1]

\* no token (the lastTokenOp that was not passed)
NoToken == Token("none", JsNull)

Parsed(ops, cursor) == [ops |-> ops, cursor |-> cursor, error |-> NoError]
ParseFailed(ops, cursor, error) == [ops |-> ops, cursor |-> cursor, error |-> error]

\* _expression: power, over multiply/divide, over add/subtract, over assign.
\* A group is its distance from the parentless power group.
PowerGroup == 1
ExpressionGroup == 4
\* the groups with add/subtract under multiply/divide
GroupKindsAddFirst(group) ==
  CASE group = 1 -> {"power"}
    [] group = 2 -> {"add", "subtract"}
    [] group = 3 -> {"multiply", "divide"}
    [] group = 4 -> {"assign"}
GroupKinds(group) ==
  CASE group = 1 -> {"power"}
    [] group = 2 -> {"multiply", "divide"}
    [] group = 3 -> {"add", "subtract"}
    [] group = 4 -> {"assign"}

RECURSIVE ValueExpression(_, _, _)
RECURSIVE GroupExpression(_, _, _, _, _)
RECURSIVE HalfExpression(_, _, _, _)

\* an expression that pushes the operator only after the rest of the chain
GroupExpressionRight(group, ops, tokens, cursor, lastTokenOp) ==
  LET AfterRest(rest) ==
        IF rest.error # NoError \/ lastTokenOp = NoToken THEN rest
        ELSE Parsed(Append(rest.ops, ToOpcode(lastTokenOp)), rest.cursor)
      AfterTerm(term) ==
        IF term.error # NoError THEN term
        ELSE IF term.cursor < Len(tokens)
          THEN AfterRest(HalfExpression(group, term.ops, tokens, term.cursor))
        ELSE AfterRest(Parsed(term.ops, term.cursor))
  IN IF group # PowerGroup
     THEN AfterTerm(GroupExpression(group - 1, ops, tokens, cursor, NoToken))
     ELSE AfterTerm(ValueExpression(ops, tokens, cursor))

\* _valueExpression
ValueExpression(ops, tokens, cursor) ==
  LET AfterInner(inner) ==
        IF inner.error # NoError THEN inner
        ELSE IF ~IsDefined(tokens, inner.cursor)
          THEN ParseFailed(inner.ops, inner.cursor, TypeError)
        ELSE IF TokenAt(tokens, inner.cursor).kind # "closeBracket"
          THEN ParseFailed(inner.ops, inner.cursor,
                           ParseException("Ouch, no closing bracket", <<>>, -1))
        ELSE Parsed(inner.ops, inner.cursor + 1)
      Valued(current, currentCursor, sign) ==
        IF ~IsDefined(tokens, currentCursor)
        THEN ParseFailed(ops, currentCursor, TypeError)
        ELSE Parsed(Append(ops,
                           ToOpcode(Token(current.kind,
                                          JsString(sign \o TemplateString(
                                            TokenAt(tokens, currentCursor).value))))),
                    currentCursor + 1)
      Of(current) ==
        IF current.kind = "openBracket" THEN
          AfterInner(GroupExpression(ExpressionGroup, ops, tokens, cursor + 1, NoToken))
        ELSE IF current.kind = "identifier" THEN
          Parsed(Append(ops, ToOpcode(current)), cursor + 1)
        ELSE IF current.kind = "subtract" THEN Valued(current, cursor + 1, <<"-">>)
        ELSE Valued(current, cursor, <<>>)
  IN IF ~IsDefined(tokens, cursor) THEN ParseFailed(ops, cursor, TypeError)
     ELSE Of(TokenAt(tokens, cursor))

\* _PrecedenceGroup.expression
GroupExpression(group, ops, tokens, cursor, lastTokenOp) ==
  LET Rest(pushed, afterTerm) ==
        IF afterTerm < Len(tokens)
        THEN HalfExpression(group, pushed, tokens, afterTerm)
        ELSE Parsed(pushed, afterTerm)
      AfterTerm(term) ==
        IF term.error # NoError THEN term
        ELSE IF lastTokenOp # NoToken
          THEN Rest(Append(term.ops, ToOpcode(lastTokenOp)), term.cursor)
        ELSE Rest(term.ops, term.cursor)
  IN IF group # PowerGroup
     THEN AfterTerm(GroupExpression(group - 1, ops, tokens, cursor, NoToken))
     ELSE AfterTerm(ValueExpression(ops, tokens, cursor))

\* _PrecedenceGroup.halfExpression
HalfExpression(group, ops, tokens, cursor) ==
  IF TokenAt(tokens, cursor).kind \in GroupKinds(group)
  THEN GroupExpression(group, ops, tokens, cursor + 1, TokenAt(tokens, cursor))
  ELSE Parsed(ops, cursor)

\* _parseTokens
ParseTokens(ops, tokens, cursor) ==
  GroupExpression(ExpressionGroup, ops, tokens, cursor, NoToken)

\* new Program(source) for a source text: the program, or the error thrown
NoProgram == [ops |-> <<>>, error |-> NoError, exists |-> FALSE]
ProgramOf(ops) == [ops |-> ops, error |-> NoError, exists |-> TRUE]
Thrown(error) == [ops |-> <<>>, error |-> error, exists |-> FALSE]

NewProgram(source) ==
  LET AfterParse(parsed) ==
        IF parsed.error # NoError THEN Thrown(parsed.error)
        ELSE ProgramOf(parsed.ops)
      AfterTokenize(lexed) ==
        IF lexed.error # NoError THEN Thrown(lexed.error)
        ELSE AfterParse(ParseTokens(<<>>, lexed.tokens, 0))
  IN AfterTokenize(Tokenize(source))

(***************************************************************************)
(* Stack elements and calculation contexts                                 *)
(***************************************************************************)
Literal(value) ==
  [class |-> "Literal", value |-> value, name |-> <<>>, context |-> ""]
VariableReference(name, context) ==
  [class |-> "VariableReference", value |-> Zero, name |-> name, context |-> context]
\* the null that popStack returns for an empty stack
NullElement == [class |-> "null", value |-> Zero, name |-> <<>>, context |-> ""]

UnknownName == <<"*", "*", "u", "n", "k", "n", "o", "w", "n", "*", "*">>

EmptyRegisters == [name \in {} |-> Zero]

\* new _DefaultCalculationContext()
NewDefaultContext ==
  [class |-> "default", stack |-> <<>>, registers |-> EmptyRegisters,
   popped |-> <<>>, registerAccess |-> FALSE]
\* new _OptimizationContext()
NewOptimizationContext ==
  [class |-> "optimization", stack |-> <<>>, registers |-> EmptyRegisters,
   popped |-> <<>>, registerAccess |-> FALSE]

\* _VariableReference.bind / _Literal.bind: the reference keeps the context it
\* was created with, the argument is not used
Bind(element, context) ==
  IF element.class = "VariableReference"
  THEN VariableReference(element.name, element.context)
  ELSE element

\* popStack of context n: the heap after it and the element (or null)
PopStack(heap, n) ==
  LET stack == heap[n].stack
  IN IF stack = <<>> THEN [heap |-> heap, element |-> NullElement]
     ELSE LET result == stack[Len(stack)]
              popped == [heap EXCEPT ![n].stack = SubSeq(stack, 1, Len(stack) - 1)]
          IN IF heap[n].class = "optimization"
             THEN [heap |-> [popped EXCEPT ![n].popped = Append(@, result)],
                   element |-> result]
             ELSE [heap |-> popped, element |-> result]

\* pushStack of context n
PushStack(heap, n, newElement) ==
  IF heap[n].class = "optimization"
  THEN LET elementToPush == IF heap[n].registerAccess
                            THEN VariableReference(UnknownName, n)
                            ELSE newElement
       IN [heap EXCEPT ![n].registerAccess = FALSE,
                       ![n].popped = <<>>,
                       ![n].stack = Append(@, Bind(elementToPush, n))]
  ELSE [heap EXCEPT ![n].stack = Append(@, Bind(newElement, n))]

\* getRegister of context n: the heap after it, and the number or undefined
GetRegister(heap, n, name) ==
  IF heap[n].class = "optimization"
  THEN [heap |-> [heap EXCEPT ![n].registerAccess = TRUE],
        defined |-> TRUE, value |-> One]
  ELSE IF name \in DOMAIN heap[n].registers
  THEN [heap |-> heap, defined |-> TRUE, value |-> heap[n].registers[name]]
  ELSE [heap |-> heap, defined |-> FALSE, value |-> Zero]

\* setRegister of context n
SetRegister(heap, n, name, value) ==
  IF heap[n].class = "optimization"
  THEN [heap EXCEPT ![n].registerAccess = TRUE]
  ELSE [heap EXCEPT ![n].registers = (name :> value) @@ @]

\* clearRegisters of context n
ClearRegisters(heap, n) ==
  IF heap[n].class = "optimization"
  THEN [heap EXCEPT ![n].registerAccess = TRUE]
  ELSE [heap EXCEPT ![n].registers = EmptyRegisters]

\* a value getter without the "?? 0": undefined, a NaN in arithmetic
ElementValueUndefined(heap, element) ==
  IF element.class = "Literal" THEN [heap |-> heap, value |-> element.value]
  ELSE LET got == GetRegister(heap, element.context, element.name)
       IN [heap |-> got.heap, value |-> IF got.defined THEN got.value ELSE NaN]

\* the value getter of a stack element: a reference reads the register of
\* its own context, undefined read as 0
ElementValue(heap, element) ==
  IF element.class = "Literal" THEN [heap |-> heap, value |-> element.value]
  ELSE LET got == GetRegister(heap, element.context, element.name)
       IN [heap |-> got.heap, value |-> IF got.defined THEN got.value ELSE Zero]

Done(heap) == [heap |-> heap, error |-> NoError]
Failed(heap, error) == [heap |-> heap, error |-> error]

\* a value setter that lets a literal pass without an exception
SetElementValueSilent(heap, element, value) ==
  IF element.class = "null" THEN Failed(heap, TypeError)
  ELSE IF element.class = "Literal" THEN Done(heap)
  ELSE Done(SetRegister(heap, element.context, element.name, value))

\* the value setter of a stack element
SetElementValue(heap, element, value) ==
  IF element.class = "null" THEN Failed(heap, TypeError)
  ELSE IF element.class = "Literal"
    THEN Failed(heap, CalculationException("You can't set a value to a literal"))
  ELSE Done(SetRegister(heap, element.context, element.name, value))

(***************************************************************************)
(* The perform rules of _tokenDefinitions                                  *)
(***************************************************************************)
\* first is the operand popped first (the right one), second the left one
Combine(kind, first, second) ==
  CASE kind = "add" -> JsAdd(first, second)
    [] kind = "subtract" -> JsAdd(JsNeg(first), second)
    [] kind = "multiply" -> JsMul(first, second)
    [] kind = "divide" -> JsDiv(second, first)
    [] kind = "power" -> JsPow(second, first)

ArithmeticKinds == {"add", "subtract", "multiply", "divide", "power"}

PerformArithmetic(kind, n, heap) ==
  LET Second(first, v2) ==
        Done(PushStack(v2.heap, n, Literal(Combine(kind, first, v2.value))))
      AfterSecondPop(first, p2) ==
        IF p2.element.class = "null" THEN Failed(p2.heap, TypeError)
        ELSE Second(first, ElementValue(p2.heap, p2.element))
      First(v1) == AfterSecondPop(v1.value, PopStack(v1.heap, n))
      AfterFirstPop(p1) ==
        IF p1.element.class = "null" THEN Failed(p1.heap, TypeError)
        ELSE First(ElementValue(p1.heap, p1.element))
  IN AfterFirstPop(PopStack(heap, n))

PerformAssign(n, heap) ==
  LET AfterSet(value, set) ==
        IF set.error # NoError THEN set
        ELSE Done(PushStack(set.heap, n, Literal(value)))
      Target(value, target) ==
        AfterSet(value, SetElementValue(target.heap, target.element, value))
      Value(v) == Target(v.value, PopStack(v.heap, n))
      AfterPop(p1) ==
        IF p1.element.class = "null" THEN Failed(p1.heap, TypeError)
        ELSE Value(ElementValue(p1.heap, p1.element))
  IN AfterPop(PopStack(heap, n))

\* a perform whose Identifier opcode reads the register when it pushes
PerformEager(op, n, heap) ==
  IF op.kind \in ArithmeticKinds THEN PerformArithmetic(op.kind, n, heap)
  ELSE IF op.kind = "number" THEN Done(PushStack(heap, n, Literal(op.value.num)))
  ELSE IF op.kind = "identifier"
    THEN Done(PushStack(heap, n,
           Literal(ElementValue(heap, VariableReference(op.value.str, n)).value)))
  ELSE IF op.kind = "assign" THEN PerformAssign(n, heap)
  ELSE Failed(heap, TypeError)

\* _Opcode.perform: the brackets have no perform function
Perform(op, n, heap) ==
  IF op.kind \in ArithmeticKinds THEN PerformArithmetic(op.kind, n, heap)
  ELSE IF op.kind = "number" THEN Done(PushStack(heap, n, Literal(op.value.num)))
  ELSE IF op.kind = "identifier"
    THEN Done(PushStack(heap, n, VariableReference(op.value.str, n)))
  ELSE IF op.kind = "assign" THEN PerformAssign(n, heap)
  ELSE Failed(heap, TypeError)

\* the loop of Program.execute from opcode i on
RECURSIVE PerformFrom(_, _, _, _)
PerformFrom(ops, i, n, heap) ==
  LET AfterPerform(r) ==
        IF r.error # NoError THEN r ELSE PerformFrom(ops, i + 1, n, r.heap)
  IN IF i > Len(ops) THEN Done(heap)
     ELSE AfterPerform(Perform(ops[i], n, heap))

\* Program.execute on context n: the heap after it, and the value returned
\* or the error thrown
Execute(ops, n, heap) ==
  LET Return(v) == [heap |-> v.heap, error |-> NoError, value |-> v.value]
      AfterPop(last) ==
        IF last.element.class = "null"
        THEN [heap |-> last.heap, error |-> TypeError, value |-> Zero]
        ELSE Return(ElementValue(last.heap, last.element))
      AfterRun(run) ==
        IF run.error # NoError
        THEN [heap |-> run.heap, error |-> run.error, value |-> Zero]
        ELSE AfterPop(PopStack(run.heap, n))
  IN AfterRun(PerformFrom(ops, 1, n, heap))

(***************************************************************************)
(* Program.optimize                                                        *)
(***************************************************************************)
\* _StackElement.toOpcode
ElementToOpcode(element) ==
  IF element.class = "Literal"
  THEN Opcode("number", JsNumber(element.value))
  ELSE Opcode("identifier", JsString(element.name))

RECURSIVE ElementsToOpcodes(_)
ElementsToOpcodes(elements) ==
  IF elements = <<>> THEN <<>>
  ELSE <<ElementToOpcode(Head(elements))>> \o ElementsToOpcodes(Tail(elements))

\* stackSave.isNotEmpty: an Array has no such property, the read yields
\* undefined, which the condition takes as false
ArrayIsNotEmpty(array) == FALSE

\* a topIsLiteral that tests for the other class of stack element
TopIsVariableReference(context) ==
  context.stack # <<>> /\ context.stack[Len(context.stack)].class = "VariableReference"

\* _OptimizationContext: topIsLiteral, stackSince
TopIsLiteral(context) ==
  context.stack # <<>> /\ context.stack[Len(context.stack)].class = "Literal"
StackSince(context, start) == SubSeq(context.stack, start + 1, Len(context.stack))

\* stackSave before an opcode: null, or the stack above stackBound
StackSave(context, stackBound) ==
  IF context.stack # <<>> /\ TopIsLiteral(context)
  THEN [isNull |-> FALSE, elements |-> StackSince(context, stackBound)]
  ELSE [isNull |-> TRUE, elements |-> <<>>]

\* what one round of the loop appends to newOps
Emitted(stackSave, op) ==
  (IF ~stackSave.isNull /\ ArrayIsNotEmpty(stackSave.elements)
   THEN ElementsToOpcodes(stackSave.elements)
   ELSE <<>>) \o <<op>>

\* a length test that also takes a program of the same length
IsNotLonger(newOps, ops) == Len(newOps) <= Len(ops)
\* newOps.length < this._ops.length
IsShorter(newOps, ops) == Len(newOps) < Len(ops)

\* the loop of optimize from opcode i on, over the optimization context o
RECURSIVE OptimizeFrom(_, _, _, _, _, _)

\* the rest of a round of the loop, after op.perform(context) gave r
AfterPerform(ops, i, o, newOps, stackBound, stackSave, r) ==
  IF r.error # NoError
  THEN [heap |-> r.heap, error |-> r.error, newOps |-> newOps,
        stackBound |-> stackBound]
  ELSE IF ~TopIsLiteral(r.heap[o])
  THEN OptimizeFrom(ops, i + 1, o, r.heap,
                    newOps \o Emitted(stackSave, ops[i]),
                    Len(r.heap[o].stack))
  ELSE OptimizeFrom(ops, i + 1, o, r.heap, newOps, stackBound)

OptimizeFrom(ops, i, o, heap, newOps, stackBound) ==
  IF i > Len(ops)
  THEN [heap |-> heap, error |-> NoError, newOps |-> newOps, stackBound |-> stackBound]
  ELSE AfterPerform(ops, i, o, newOps, stackBound,
                    StackSave(heap[o], stackBound), Perform(ops[i], o, heap))

\* what optimize does after the loop ended as run, over the context it left
AfterLoop(ops, run, context) ==
  IF run.error # NoError
  THEN [exists |-> FALSE, ops |-> <<>>, error |-> run.error, same |-> FALSE,
        receiver |-> ops]
  ELSE IF TopIsLiteral(context)
  THEN [exists |-> TRUE,
        ops |-> <<Opcode("number",
                         JsNumber(context.stack[Len(context.stack)].value))>>,
        error |-> NoError, same |-> FALSE, receiver |-> ops]
  ELSE IF IsShorter(run.newOps, ops)
  THEN [exists |-> TRUE, ops |-> run.newOps, error |-> NoError, same |-> FALSE,
        receiver |-> ops]
  ELSE [exists |-> TRUE, ops |-> ops, error |-> NoError, same |-> TRUE,
        receiver |-> ops]

WithContext(ops, run) == AfterLoop(ops, run, run.heap["optimization"])

\* Program.optimize of the program with opcodes ops: the program returned
\* (same: it is the receiver itself) or the error thrown, and the receiver's
\* opcodes after the call
Optimize(ops) ==
  WithContext(ops, OptimizeFrom(ops, 1, "optimization",
                                ("optimization" :> NewOptimizationContext), <<>>, 0))

(***************************************************************************)
(* State                                                                   *)
(***************************************************************************)
VARIABLES
  source,           \* the source text last given to newProgram
  program,          \* what newProgram(source) gave: a Program or the error
  heap,             \* the calculation contexts, by name
  result,           \* what the last execute of program gave
  optimized,        \* what program.optimize() gave
  resultOptimized,  \* what execute of the optimized program gave
  reoptimized,      \* what optimize() of the optimized program gave
  before,           \* the registers of the context before the call made last
  pc                \* the call made last

vars ==
  <<source, program, heap, result, optimized, resultOptimized, reoptimized, before, pc>>

NotCalled == [called |-> FALSE, error |-> NoError, value |-> Zero]
Returned(r) == [called |-> TRUE, error |-> r.error, value |-> r.value]
NotOptimized ==
  [exists |-> FALSE, ops |-> <<>>, error |-> NoError, same |-> FALSE, receiver |-> <<>>]

WithRegisters(registers) == [NewDefaultContext EXCEPT !.registers = registers]

(***************************************************************************)
(* Inputs                                                                  *)
(***************************************************************************)
MaxSourceLen == 3

Alphabet ==
  {"0", "2", "3", "a", "e", " ", "+", "-", "*", "/", "=", "(", ")", "@", "."}

RECURSIVE Texts(_, _)
Texts(chars, len) ==
  IF len = 0 THEN {<<>>}
  ELSE LET shorter == Texts(chars, len - 1)
       IN shorter \cup {Append(t, c) : t \in {u \in shorter : Len(u) = len - 1},
                                       c \in chars}

ShortSources == Texts(Alphabet, MaxSourceLen)

LiteralTexts == {<<"2">>, <<"3">>}
IdentifierTexts == {<<"a">>}
OperandTexts == LiteralTexts \cup IdentifierTexts
ArithmeticSymbols == {<<"+">>, <<"-">>, <<"*">>, <<"/">>, <<"*", "*">>}
BinarySymbols == ArithmeticSymbols \cup {<<"=">>}

\* x op1 y op2 z, without and with brackets
ChainSources ==
  {x \o o1 \o y \o o2 \o z :
     x \in OperandTexts, o1 \in BinarySymbols, y \in OperandTexts,
     o2 \in BinarySymbols, z \in OperandTexts}
LeftBracketSources ==
  {<<"(">> \o x \o o1 \o y \o <<")">> \o o2 \o z :
     x \in OperandTexts, o1 \in BinarySymbols, y \in OperandTexts,
     o2 \in BinarySymbols, z \in OperandTexts}
RightBracketSources ==
  {x \o o1 \o <<"(">> \o y \o o2 \o z \o <<")">> :
     x \in OperandTexts, o1 \in BinarySymbols, y \in OperandTexts,
     o2 \in BinarySymbols, z \in OperandTexts}
\* a '-' before a number literal in operand position
NegativeSources ==
  {<<"-">> \o n : n \in LiteralTexts}
    \cup {<<"-">> \o n \o o \o m : n \in LiteralTexts, o \in BinarySymbols,
                                   m \in OperandTexts}
    \cup {x \o o \o <<"-">> \o n : x \in OperandTexts, o \in BinarySymbols,
                                   n \in LiteralTexts}

\* the expressions the documentation gives as examples
ExampleSources ==
  { <<"1", "+", "2">>,
    <<"2", "+", "3", "*", "4">>,
    <<"(", "2", "+", "3", ")", "*", "4">>,
    <<"2", "*", "*", "3", "*", "*", "2">>,
    <<"-", "3", "*", "*", "2">>,
    <<"a", "=", "5">>,
    <<"a", "+", "1">>,
    <<"2", "+", "3">>,
    <<"1", "+", "@">>,
    <<"(", "1", "+", "2">>,
    <<"a", "=", "2", "+", "3">>,
    <<"5", "=", "3">>,
    <<"a", "=", "b", "=", "3">>,
    <<"(", "a", "=", "1", ")", "+", "(", "2", "=", "3", ")">>,
    <<"a", "+", "(", "a", "=", "5", ")">>,
    <<"(", "a", "=", "5", ")", "+", "a">>,
    <<"7", "-", "2">>,
    <<"x">>,
    <<"x", "+", "1">>,
    <<"2", ".", "5", "+", "@">> }

Sources ==
  ShortSources \cup ChainSources \cup LeftBracketSources
    \cup RightBracketSources \cup NegativeSources \cup ExampleSources

\* the registers a context starts with
StartRegisters ==
  {EmptyRegisters, (<<"a">> :> IntNum(10)), (<<"a">> :> Num(-1, 2))}

(***************************************************************************)
(* One program taken through newProgram, execute, optimize, execute of the *)
(* optimized program on an identical context, and optimize once more       *)
(***************************************************************************)
ProgramInit ==
  /\ source \in Sources
  /\ \E registers \in StartRegisters :
       heap = [n \in {"context", "copy"} |-> WithRegisters(registers)]
  /\ program = NoProgram
  /\ result = NotCalled
  /\ optimized = NotOptimized
  /\ resultOptimized = NotCalled
  /\ reoptimized = NotOptimized
  /\ before = heap["context"].registers
  /\ pc = "source"

\* newProgram(source)
Compile ==
  /\ pc = "source"
  /\ program' = NewProgram(source)
  /\ pc' = "newProgram"
  /\ UNCHANGED <<source, heap, result, optimized, resultOptimized, reoptimized, before>>

\* program.execute(context)
ExecuteProgram ==
  /\ pc = "newProgram"
  /\ program.exists
  /\ \E r \in {Execute(program.ops, "context", heap)} :
       /\ heap' = r.heap
       /\ result' = Returned(r)
  /\ pc' = "execute"
  /\ UNCHANGED <<source, program, optimized, resultOptimized, reoptimized, before>>

\* program.optimize()
OptimizeProgram ==
  /\ pc = "execute"
  /\ \E r \in {Optimize(program.ops)} :
       /\ optimized' = r
       /\ program' = [program EXCEPT !.ops = r.receiver]
  /\ pc' = "optimize"
  /\ UNCHANGED <<source, heap, result, resultOptimized, reoptimized, before>>

\* program.optimize().execute(copy)
ExecuteOptimized ==
  /\ pc = "optimize"
  /\ optimized.exists
  /\ \E r \in {Execute(optimized.ops, "copy", heap)} :
       /\ heap' = r.heap
       /\ resultOptimized' = Returned(r)
  /\ pc' = "executeOptimized"
  /\ UNCHANGED <<source, program, result, optimized, reoptimized, before>>

\* program.optimize().optimize()
OptimizeAgain ==
  /\ pc = "executeOptimized"
  /\ \E r \in {Optimize(optimized.ops)} :
       /\ reoptimized' = r
       /\ optimized' = [optimized EXCEPT !.ops = r.receiver]
  /\ pc' = "optimizeAgain"
  /\ UNCHANGED <<source, program, heap, result, resultOptimized, before>>

ProgramNext ==
  \/ Compile
  \/ ExecuteProgram
  \/ OptimizeProgram
  \/ ExecuteOptimized
  \/ OptimizeAgain

ProgramSpec == ProgramInit /\ [][ProgramNext]_vars

(***************************************************************************)
(* Properties of one program                                               *)
(***************************************************************************)
KindsOf(ops) == [i \in 1 .. Len(ops) |-> ops[i].kind]
NumberOp(v) == Opcode("number", JsNumber(v))
IdentifierOp(name) == Opcode("identifier", JsString(name))
OperatorOp(kind) == Opcode(kind, JsNull)

Executed == result.called
ExecutedWell == result.called /\ result.error = NoError

\* C1: executing p.optimize() on a context returns the same value and leaves
\* the same registers as executing p on an identical context.
C1_OptimizedProgramIsEquivalent ==
  (pc = "executeOptimized" /\ ExecutedWell) =>
    /\ resultOptimized.error = NoError
    /\ resultOptimized.value = result.value
    /\ heap["copy"].registers = heap["context"].registers

\* C2: a program compiled from a source without an identifier, executing
\* without error, is optimized to exactly one Number opcode holding the result
\* of the original program, and the optimized program executes to that result.
HasNoIdentifier(text) ==
  LET lexed == Tokenize(text)
  IN /\ lexed.error = NoError
     /\ \A i \in 1 .. Len(lexed.tokens) : lexed.tokens[i].kind # "identifier"

C2_ConstantProgramFoldsToOneNumber ==
  (HasNoIdentifier(source) /\ ExecutedWell) =>
    /\ pc \in {"optimize", "executeOptimized", "optimizeAgain"} =>
         /\ optimized.exists
         /\ optimized.ops = <<NumberOp(result.value)>>
    /\ pc \in {"executeOptimized", "optimizeAgain"} =>
         /\ resultOptimized.error = NoError
         /\ resultOptimized.value = result.value

C2_Witness ==
  /\ source = <<"2", "+", "3">>
  /\ pc = "executeOptimized"
  /\ Len(program.ops) = 3
  /\ optimized.ops = <<NumberOp(IntNum(5))>>
  /\ resultOptimized.value = IntNum(5)

\* C3: p.optimize().optimize() completes and yields an opcode sequence no
\* shorter than that of p.optimize().
C3_OptimizeIsIdempotent ==
  pc = "optimizeAgain" =>
    /\ reoptimized.exists
    /\ Len(reoptimized.ops) >= Len(optimized.ops)

\* C4: optimize leaves the opcodes of its receiver unchanged, and the program
\* it returns has at most as many opcodes as the receiver: it is the receiver
\* itself unless it is a single Number opcode or strictly shorter.
C4_OptimizeKeepsReceiverAndNeverGrows ==
  /\ pc # "source" => program = NewProgram(source)
  /\ (pc \in {"optimize", "executeOptimized", "optimizeAgain"} /\ optimized.exists) =>
       /\ Len(optimized.ops) <= Len(program.ops)
       /\ \/ optimized.same /\ optimized.ops = program.ops
          \/ ~optimized.same /\ Len(optimized.ops) < Len(program.ops)
          \/ ~optimized.same /\ Len(optimized.ops) = 1
                             /\ optimized.ops[1].kind = "number"
  /\ (pc = "optimizeAgain" /\ reoptimized.exists) =>
       /\ optimized.ops = Optimize(program.ops).ops
       /\ Len(reoptimized.ops) <= Len(optimized.ops)

C4_Witness ==
  /\ pc = "optimize"
  /\ optimized.exists
  /\ ~optimized.same
  /\ Len(program.ops) = 5
  /\ Len(optimized.ops) = 3
  /\ program = NewProgram(source)

\* the arithmetic the language means by its operators
Apply(symbol, left, right) ==
  CASE symbol = <<"+">> -> JsAdd(left, right)
    [] symbol = <<"-">> -> JsAdd(left, JsNeg(right))
    [] symbol = <<"*">> -> JsMul(left, right)
    [] symbol = <<"/">> -> JsDiv(left, right)
    [] symbol = <<"*", "*">> -> JsPow(left, right)

\* how tightly a binary symbol binds: the larger, the tighter
Tightness(symbol) ==
  CASE symbol = <<"=">> -> 0
    [] symbol \in {<<"+">>, <<"-">>} -> 1
    [] symbol \in {<<"*">>, <<"/">>} -> 2
    [] symbol = <<"*", "*">> -> 3

KindOfSymbol(symbol) ==
  CASE symbol = <<"=">> -> "assign"
    [] symbol = <<"+">> -> "add"
    [] symbol = <<"-">> -> "subtract"
    [] symbol = <<"*">> -> "multiply"
    [] symbol = <<"/">> -> "divide"
    [] symbol = <<"*", "*">> -> "power"

\* text begins with prefix
StartsText(text, prefix) ==
  Len(prefix) <= Len(text) /\ SubSeq(text, 1, Len(prefix)) = prefix

\* the number a one-digit literal denotes
LiteralNumber(text) == IntNum(DigitValue(text[1]))

\* C5: for number literals x, y, z and arithmetic operators of different
\* precedence, x op1 y op2 z applies the tighter operator first ('**' before
\* '*' and '/', these before '+' and '-'), and a bracketed sub-expression is
\* evaluated as one operand.
C5_PrecedenceAndBrackets ==
  Executed =>
    \A x \in LiteralTexts, o1 \in ArithmeticSymbols :
      (StartsText(source, x \o o1) \/ StartsText(source, <<"(">> \o x \o o1)) =>
        \A y \in LiteralTexts, o2 \in ArithmeticSymbols, z \in LiteralTexts :
          LET vx == LiteralNumber(x)
              vy == LiteralNumber(y)
              vz == LiteralNumber(z)
              leftFirst == Apply(o2, Apply(o1, vx, vy), vz)
              rightFirst == Apply(o1, vx, Apply(o2, vy, vz))
          IN /\ (source = x \o o1 \o y \o o2 \o z /\ Tightness(o1) > Tightness(o2)) =>
                  result.error = NoError /\ result.value = leftFirst
             /\ (source = x \o o1 \o y \o o2 \o z /\ Tightness(o1) < Tightness(o2)) =>
                  result.error = NoError /\ result.value = rightFirst
             /\ source = <<"(">> \o x \o o1 \o y \o <<")">> \o o2 \o z =>
                  result.error = NoError /\ result.value = leftFirst
             /\ source = x \o o1 \o <<"(">> \o y \o o2 \o z \o <<")">> =>
                  result.error = NoError /\ result.value = rightFirst

\* the documented examples 2+3*4 = 14 and (2+3)*4 = 20 are instances
C5_Examples ==
  Executed =>
    /\ (source = <<"2", "+", "3", "*", "4">> => result.value = IntNum(14))
    /\ (source = <<"(", "2", "+", "3", ")", "*", "4">> => result.value = IntNum(20))

C5_Theorem == C5_PrecedenceAndBrackets /\ C5_Examples

C5_Witness ==
  /\ source = <<"2", "+", "(", "3", "-", "2", ")">>
  /\ pc = "execute"
  /\ result.value = IntNum(3)

\* C6: operators of one precedence level chain to the left: x op1 y op2 z
\* compiles to the opcodes of x, y, op1, z, op2, and executes as
\* (x op1 y) op2 z; 2**3**2 = 64.
OperandOp(text) ==
  IF text \in LiteralTexts THEN NumberOp(LiteralNumber(text)) ELSE IdentifierOp(text)
OperandNumber(text, registers) ==
  IF text \in LiteralTexts THEN LiteralNumber(text)
  ELSE IF text \in DOMAIN registers THEN registers[text]
  ELSE Zero

C6_LeftAssociative ==
  pc # "source" =>
    \A x \in OperandTexts, o1 \in BinarySymbols :
      StartsText(source, x \o o1) =>
        \A y \in OperandTexts, o2 \in BinarySymbols, z \in OperandTexts :
          (source = x \o o1 \o y \o o2 \o z /\ Tightness(o1) = Tightness(o2)) =>
            /\ program.exists
            /\ program.ops = <<OperandOp(x), OperandOp(y),
                               OperatorOp(KindOfSymbol(o1)),
                               OperandOp(z), OperatorOp(KindOfSymbol(o2))>>
            /\ (Executed /\ o1 # <<"=">>) =>
                 LET registers == heap["context"].registers
                 IN /\ result.error = NoError
                    /\ result.value =
                         Apply(o2, Apply(o1, OperandNumber(x, registers),
                                             OperandNumber(y, registers)),
                               OperandNumber(z, registers))

C6_Examples ==
  (Executed /\ source = <<"2", "*", "*", "3", "*", "*", "2">>) =>
    result.value = IntNum(64)

C6_Theorem == C6_LeftAssociative /\ C6_Examples

C6_Witness ==
  /\ source = <<"2", "*", "*", "3", "*", "*", "2">>
  /\ pc = "execute"
  /\ KindsOf(program.ops) = <<"number", "number", "power", "number", "power">>
  /\ result.value = IntNum(64)

\* C7: a '-' immediately before a number literal in operand position is
\* folded into the literal: "-n" compiles to a single Number opcode holding
\* -n and executes to -n, and "-3**2" executes to 9.
C7_NegativeLiteralIsOneNumber ==
  /\ pc # "source" =>
       \A n \in LiteralTexts :
         source = <<"-">> \o n =>
           /\ program.exists
           /\ program.ops = <<NumberOp(JsNeg(LiteralNumber(n)))>>
  /\ Executed =>
       /\ \A n \in LiteralTexts :
            source = <<"-">> \o n =>
              result.error = NoError /\ result.value = JsNeg(LiteralNumber(n))
       /\ source = <<"-", "3", "*", "*", "2">> =>
            result.error = NoError /\ result.value = IntNum(9)

\* C10: when the source holds a non-space character at which no symbol,
\* number or identifier starts, newProgram fails with a Parse Error whose
\* offset is the index of the first such character and whose buffer is the
\* whole source, and gives no Program.
SymbolStarts == {"+", "-", "*", "/", "=", "(", ")"}
IsStray(c) == c \notin ({" "} \cup SymbolStarts \cup Digits \cup Letters)
BetweenDigits(text, i) ==
  text[i] = "." /\ CharAt(text, i - 1) \in Digits /\ CharAt(text, i + 1) \in Digits
Strays(text) == {i \in 1 .. Len(text) : IsStray(text[i])}
IsLexerError(error) == error.name = "CalculationParseException" /\ error.offset >= 0

FirstOf(positions) == CHOOSE i \in positions : \A j \in positions : i <= j

C10_StrangeCharacterIsParseError ==
  (pc # "source" /\ Strays(source) # {}) =>
    /\ IsLexerError(program.error)
    /\ ~program.exists
    /\ program.error.buffer = source
    /\ program.error.offset + 1 = FirstOf(Strays(source))

\* C10, amended: a '.' between two digits can be the fraction point inside a
\* number literal, where the scan does not stand.  When the source holds a
\* non-space character at which no token starts and which is not a '.'
\* between two digits, newProgram fails with a Parse Error; and whenever it
\* fails so, the offset is the index of a character at which no token starts,
\* every such character before it is a '.' between two digits, the buffer is
\* the whole source, and there is no Program.
C10_StrangeCharacterOutsideNumber ==
  pc # "source" =>
    /\ (\E i \in Strays(source) : ~BetweenDigits(source, i)) =>
         IsLexerError(program.error)
    /\ IsLexerError(program.error) =>
         /\ ~program.exists
         /\ program.error.buffer = source
         /\ program.error.offset + 1 \in Strays(source)
         /\ \A j \in Strays(source) :
              j < program.error.offset + 1 => BetweenDigits(source, j)

C10_Examples ==
  pc # "source" =>
    /\ (source = <<"1", "+", "@">> =>
          IsLexerError(program.error) /\ program.error.offset = 2)
    /\ (source = <<"2", ".", "5", "+", "@">> =>
          IsLexerError(program.error) /\ program.error.offset = 4)

C10_Theorem == C10_StrangeCharacterOutsideNumber /\ C10_Examples

C10_Witness ==
  /\ source = <<"1", "+", "@">>
  /\ pc = "newProgram"
  /\ ~program.exists
  /\ program.error.offset = 2
  /\ program.error.buffer = source

(***************************************************************************)
(* A context used for one execute call after another                       *)
(***************************************************************************)
MaxStack == 2
MaxRegister == 8

SessionNames == {<<"a">>, <<"b">>}
SessionExpressions ==
  { <<"5">>, <<"a">>, <<"b">>, <<"x">>,
    <<"a", "+", "1">>, <<"x", "+", "1">>, <<"2", "*", "b">>, <<"-", "5">> }
AssignmentSources ==
  {name \o <<"=">> \o e : name \in SessionNames, e \in SessionExpressions}
\* an operator alone, which newProgram accepts
OperatorSources == {<<"+">>}
SessionSources ==
  SessionExpressions \cup AssignmentSources \cup ExampleSources
    \cup OperatorSources

\* the stack and the registers stay within the bounds of the model
IsSmall(context) ==
  /\ Len(context.stack) <= MaxStack
  /\ \A name \in DOMAIN context.registers :
       /\ ~IsOpaque(context.registers[name])
       /\ Abs(context.registers[name].n) <= MaxRegister
       /\ context.registers[name].d <= MaxRegister

Init ==
  /\ source = <<>>
  /\ heap = [n \in {"context", "copy"} |-> NewDefaultContext]
  /\ program = NoProgram
  /\ result = NotCalled
  /\ optimized = NotOptimized
  /\ resultOptimized = NotCalled
  /\ reoptimized = NotOptimized
  /\ before = EmptyRegisters
  /\ pc = "newContext"

\* newProgram(text), for each text the session may be given
SessionPrograms == [text \in SessionSources |-> NewProgram(text)]

\* newProgram(text).execute(context)
Evaluate(text) ==
  \E p \in {SessionPrograms[text]} :
    /\ source' = text
    /\ program' = p
    /\ before' = heap["context"].registers
    /\ IF p.exists
       THEN \E r \in {Execute(p.ops, "context", heap)} :
              /\ IsSmall(r.heap["context"])
              /\ heap' = r.heap
              /\ result' = Returned(r)
       ELSE /\ heap' = heap
            /\ result' = NotCalled
    /\ pc' = "execute"
    /\ UNCHANGED <<optimized, resultOptimized, reoptimized>>

\* context.clearRegisters()
ClearContextRegisters ==
  /\ heap' = ClearRegisters(heap, "context")
  /\ before' = heap["context"].registers
  /\ pc' = "clearRegisters"
  /\ UNCHANGED <<source, program, result, optimized, resultOptimized, reoptimized>>

Next ==
  \/ \E text \in SessionSources : Evaluate(text)
  \/ ClearContextRegisters

Spec == Init /\ [][Next]_vars

(***************************************************************************)
(* Properties of a context used for one call after another                 *)
(***************************************************************************)
Registers == heap["context"].registers
Read(registers, name) == IF name \in DOMAIN registers THEN registers[name] ELSE Zero

\* the value of each of SessionExpressions over the registers
ExpressionValue(e, registers) ==
  CASE e = <<"5">> -> IntNum(5)
    [] e = <<"a">> -> Read(registers, <<"a">>)
    [] e = <<"b">> -> Read(registers, <<"b">>)
    [] e = <<"x">> -> Read(registers, <<"x">>)
    [] e = <<"a", "+", "1">> -> JsAdd(Read(registers, <<"a">>), One)
    [] e = <<"x", "+", "1">> -> JsAdd(Read(registers, <<"x">>), One)
    [] e = <<"2", "*", "b">> -> JsMul(IntNum(2), Read(registers, <<"b">>))
    [] e = <<"-", "5">> -> IntNum(-5)

\* the opcodes hold an assignment to the name
Assigns(ops, name) ==
  \E i \in 1 .. Len(ops) :
    /\ ops[i] = IdentifierOp(name)
    /\ \E j \in i + 1 .. Len(ops) : ops[j].kind = "assign"

\* C8: executing "name = expr" on a context returns the value of expr and sets
\* the register name to it, and a register keeps its value over later calls
\* until it is assigned again or cleared; on a fresh context "a=5" gives 5 and
\* register a = 5, and "a+1" then gives 6.
C8_AssignmentReturnsAndStores ==
  /\ pc = "execute" =>
       \A name \in SessionNames, e \in SessionExpressions :
         source = name \o <<"=">> \o e =>
           /\ ExecutedWell
           /\ result.value = ExpressionValue(e, before)
           /\ name \in DOMAIN Registers
           /\ Registers[name] = result.value
  /\ \A name \in DOMAIN before :
       (name \notin DOMAIN Registers \/ Registers[name] # before[name]) =>
         \/ pc = "clearRegisters"
         \/ pc = "execute" /\ Assigns(program.ops, name)
  /\ (pc = "execute" /\ source = <<"a", "+", "1">>
        /\ Read(before, <<"a">>) = IntNum(5)) =>
       ExecutedWell /\ result.value = IntNum(6)

\* C9: evaluating an identifier whose register is not set yields 0 and does
\* not fail, whatever the context went through before (fresh, cleared, other
\* names set, a stack left behind by a failed call); "x" gives 0, "x+1" gives 1.
ReadNames == {<<"a">>, <<"b">>, <<"x">>}

C9_UnsetRegisterReadsZero ==
  /\ \A name \in ReadNames \ DOMAIN Registers :
       ElementValue(heap, VariableReference(name, "context")).value = Zero
  /\ pc = "execute" =>
       \A name \in ReadNames \ DOMAIN before :
         /\ source = name =>
              ExecutedWell /\ result.value = Zero /\ Registers = before
         /\ source = name \o <<"+", "1">> =>
              ExecutedWell /\ result.value = One /\ Registers = before

\* "b" read as 0 while a is set and an earlier failed call left its stack
C9_Witness ==
  /\ pc = "execute"
  /\ source = <<"b">>
  /\ <<"b">> \notin DOMAIN before
  /\ <<"a">> \in DOMAIN before
  /\ heap["context"].stack # <<>>
  /\ result.called
  /\ result.value = Zero

(***************************************************************************)
(* Properties of the compiler                                              *)
(***************************************************************************)
\* the number of open brackets of text[i ..] left without a close bracket,
\* depth of them being open already
RECURSIVE OpenLeft(_, _, _)
OpenLeft(text, i, depth) ==
  IF i > Len(text) THEN depth
  ELSE IF text[i] = "(" THEN OpenLeft(text, i + 1, depth + 1)
  ELSE IF text[i] = ")" /\ depth > 0 THEN OpenLeft(text, i + 1, depth - 1)
  ELSE OpenLeft(text, i + 1, depth)

HasUnclosedBracket(text) == OpenLeft(text, 1, 0) > 0

\* C11: for every source (of characters the lexer takes) in which an open
\* bracket has no matching close bracket, newProgram fails with a Parse Error
\* that carries the source as its buffer and an offset; "(1+2" is one.
C11_UnclosedBracketIsParseError ==
  (pc # "source" /\ Strays(source) = {} /\ HasUnclosedBracket(source)) =>
    /\ ~program.exists
    /\ program.error.name = "CalculationParseException"
    /\ program.error.buffer = source
    /\ program.error.offset >= 0

\* C13: whenever newProgram(source) returns a Program, the compiler has
\* consumed every token of the source.
ConsumedTokens(text) == ParseTokens(<<>>, Tokenize(text).tokens, 0).cursor

C13_WholeInputIsCompiled ==
  (pc # "source" /\ program.exists) =>
    ConsumedTokens(source) = Len(Tokenize(source).tokens)

\* C17: no Program that newProgram returns holds an OpenBracket or a
\* CloseBracket opcode: every opcode of it has a perform function.
KindsPerformed == ArithmeticKinds \cup {"number", "identifier", "assign"}

C17_NoBracketOpcode ==
  (pc # "source" /\ program.exists) =>
    \A i \in 1 .. Len(program.ops) :
      /\ program.ops[i].kind \notin {"openBracket", "closeBracket"}
      /\ program.ops[i].kind \in KindsPerformed

(***************************************************************************)
(* Properties of assignment and of the order of evaluation                 *)
(***************************************************************************)
IsRuntimeError(error) == error.name = "CalculationException"
WithRegister(registers, name, value) == (name :> value) @@ registers

\* C12: executing an Assign whose target is a literal fails with a runtime
\* error, and a register written by an assignment executed before it in the
\* same call keeps its new value: "5=3" fails; "x=y=z" assigns y to x and then
\* fails; after the failing "(a=1)+(2=3)" register a is 1.
C12_AssignToLiteralFails ==
  result.called =>
    /\ \A n \in LiteralTexts, e \in OperandTexts :
         source = n \o <<"=">> \o e =>
           IsRuntimeError(result.error) /\ Registers = before
    /\ \A x \in IdentifierTexts, y \in OperandTexts, z \in OperandTexts :
         source = x \o <<"=">> \o y \o <<"=">> \o z =>
           /\ IsRuntimeError(result.error)
           /\ Registers = WithRegister(before, x, OperandNumber(y, before))

C12_Examples ==
  result.called =>
    /\ source = <<"5", "=", "3">> =>
         IsRuntimeError(result.error) /\ Registers = before
    /\ source = <<"a", "=", "b", "=", "3">> =>
         /\ IsRuntimeError(result.error)
         /\ Registers = WithRegister(before, <<"a">>, Read(before, <<"b">>))
    /\ source = <<"(", "a", "=", "1", ")", "+", "(", "2", "=", "3", ")">> =>
         /\ IsRuntimeError(result.error)
         /\ Registers = WithRegister(before, <<"a">>, One)

C12_Theorem == C12_AssignToLiteralFails /\ C12_Examples

C12_Witness ==
  /\ source = <<"(", "a", "=", "1", ")", "+", "(", "2", "=", "3", ")">>
  /\ pc = "execute"
  /\ before = EmptyRegisters
  /\ result.called
  /\ IsRuntimeError(result.error)
  /\ Registers = (<<"a">> :> One)

\* an operand as the documentation reads it: a number literal, a negative
\* number literal or a name
NegativeTexts == {<<"-">> \o n : n \in LiteralTexts}
ValueTexts == OperandTexts \cup NegativeTexts
ValueOp(text) ==
  IF text \in NegativeTexts
  THEN NumberOp(JsNeg(LiteralNumber(Tail(text))))
  ELSE OperandOp(text)
ValueNumber(text, registers) ==
  IF text \in NegativeTexts
  THEN JsNeg(LiteralNumber(Tail(text)))
  ELSE OperandNumber(text, registers)

\* the operands of a binary expression are compiled left then right, and the
\* operator applies to them in that order
OperandOrder(values) ==
  /\ pc # "source" =>
       \A l \in values, o \in BinarySymbols, r \in values :
         source = l \o o \o r =>
           /\ program.exists
           /\ program.ops = <<ValueOp(l), ValueOp(r), OperatorOp(KindOfSymbol(o))>>
  /\ (pc = "execute" /\ result.called) =>
       \A l \in values, o \in ArithmeticSymbols, r \in values :
         source = l \o o \o r =>
           /\ ExecutedWell
           /\ result.value = Apply(o, ValueNumber(l, before), ValueNumber(r, before))

\* C14: for every binary expression L op R the compiler emits L's opcodes,
\* R's opcodes and then the operator's opcode, and the operator applies to
\* L and R in that order (L - R, L / R, L ** R); "1+2" compiles to
\* [Number 1, Number 2, Add] and "7-2" evaluates to 5.
C14_OperandOrder ==
  /\ OperandOrder(ValueTexts)
  /\ pc # "source" =>
       (source = <<"1", "+", "2">> =>
          /\ program.exists
          /\ program.ops = <<NumberOp(One), NumberOp(IntNum(2)), OperatorOp("add")>>)
  /\ (pc = "execute" /\ result.called) =>
       (source = <<"7", "-", "2">> => ExecutedWell /\ result.value = IntNum(5))

\* the same statement for operands that are not negative literals
C14_OperandOrderOfPlainOperands == OperandOrder(OperandTexts)

(***************************************************************************)
(* Two execution contexts used through their own operations: elements are  *)
(* created against either context and pushed onto either stack, popped     *)
(* elements are read and written, registers are set                        *)
(***************************************************************************)
ContextNames == {"context", "copy"}
ContextValues == {IntNum(2), IntNum(3)}

ContextInit ==
  /\ source = <<>>
  /\ heap = [n \in ContextNames |-> NewDefaultContext]
  /\ program = NoProgram
  /\ result = NotCalled
  /\ optimized = NotOptimized
  /\ resultOptimized = NotCalled
  /\ reoptimized = NotOptimized
  /\ before = EmptyRegisters
  /\ pc = "newContext"

\* b.pushStack(new _VariableReference(name, a))
PushReference(a, b, name) ==
  /\ Len(heap[b].stack) < MaxStack
  /\ heap' = PushStack(heap, b, VariableReference(name, a))
  /\ before' = heap[b].registers
  /\ pc' = "pushStack"
  /\ UNCHANGED <<source, program, result, optimized, resultOptimized, reoptimized>>

\* b.pushStack(new _Literal(value))
PushLiteral(b, value) ==
  /\ Len(heap[b].stack) < MaxStack
  /\ heap' = PushStack(heap, b, Literal(value))
  /\ before' = heap[b].registers
  /\ pc' = "pushStack"
  /\ UNCHANGED <<source, program, result, optimized, resultOptimized, reoptimized>>

\* b.popStack().value
PopValue(b) ==
  /\ \E p \in {PopStack(heap, b)} :
       IF p.element.class = "null"
       THEN /\ heap' = p.heap
            /\ result' = [called |-> TRUE, error |-> TypeError, value |-> Zero]
       ELSE \E got \in {ElementValue(p.heap, p.element)} :
              /\ heap' = got.heap
              /\ result' = [called |-> TRUE, error |-> NoError, value |-> got.value]
  /\ before' = heap[b].registers
  /\ pc' = "getValue"
  /\ UNCHANGED <<source, program, optimized, resultOptimized, reoptimized>>

\* b.popStack().value = value
PopAssign(b, value) ==
  /\ \E p \in {PopStack(heap, b)} :
       \E set \in {SetElementValue(p.heap, p.element, value)} :
         /\ heap' = set.heap
         /\ result' = [called |-> TRUE, error |-> set.error, value |-> Zero]
  /\ before' = heap[b].registers
  /\ pc' = "setValue"
  /\ UNCHANGED <<source, program, optimized, resultOptimized, reoptimized>>

\* n.setRegister(name, value)
SetContextRegister(n, name, value) ==
  /\ heap' = SetRegister(heap, n, name, value)
  /\ before' = heap[n].registers
  /\ pc' = "setRegister"
  /\ UNCHANGED <<source, program, result, optimized, resultOptimized, reoptimized>>

ContextNext ==
  \/ \E a \in ContextNames, b \in ContextNames, name \in IdentifierTexts :
       PushReference(a, b, name)
  \/ \E b \in ContextNames, value \in ContextValues : PushLiteral(b, value)
  \/ \E b \in ContextNames : PopValue(b)
  \/ \E b \in ContextNames, value \in ContextValues : PopAssign(b, value)
  \/ \E n \in ContextNames, name \in IdentifierTexts, value \in ContextValues :
       SetContextRegister(n, name, value)

ContextSpec == ContextInit /\ [][ContextNext]_vars

(***************************************************************************)
(* Properties of the execution context                                     *)
(***************************************************************************)
\* reading through element gives the register of context n
ReadsFrom(element, n) ==
  ElementValue(heap, element).value = Read(heap[n].registers, element.name)

\* writing through element changes the register of context n and no other
WritesTo(element, n) ==
  \A value \in ContextValues :
    \E set \in {SetElementValue(heap, element, value)} :
      /\ set.error = NoError
      /\ set.heap[n].registers = WithRegister(heap[n].registers, element.name, value)
      /\ \A m \in ContextNames \ {n} : set.heap[m].registers = heap[m].registers

\* C15: pushStack of an execution context rebinds the pushed element to that
\* context: a variable reference on the stack of context n, whichever context
\* it was created against, reads from and writes to the registers of n.
C15_PushStackRebinds ==
  \A n \in ContextNames :
    \A i \in 1 .. Len(heap[n].stack) :
      heap[n].stack[i].class = "VariableReference" =>
        /\ ReadsFrom(heap[n].stack[i], n)
        /\ WritesTo(heap[n].stack[i], n)

(***************************************************************************)
(* Properties of the optimizer's output                                    *)
(***************************************************************************)
Optimized == pc \in {"optimize", "executeOptimized"} /\ optimized.exists

\* C16: when an opcode leaves a non-literal on top of the symbolic stack and
\* the top before it was a literal, optimize emits one Number opcode for each
\* literal above the materialization boundary, in stack order, and then the
\* opcode: for a name x and number literals y, z the program of x = y op z,
\* and of x op1 y op2 z with op2 the tighter operator, is optimized to
\* [Identifier x, Number (y op z), operator]; "a=2+3" gives
\* [Identifier a, Number 5, Assign].
C16_LiteralsAreFlushedBeforeTheOpcode ==
  Optimized =>
    /\ \A x \in IdentifierTexts, y \in LiteralTexts, z \in LiteralTexts :
         \A o1 \in BinarySymbols, o2 \in ArithmeticSymbols :
           (source = x \o o1 \o y \o o2 \o z /\ Tightness(o2) > Tightness(o1)) =>
             optimized.ops =
               <<IdentifierOp(x),
                 NumberOp(Apply(o2, LiteralNumber(y), LiteralNumber(z))),
                 OperatorOp(KindOfSymbol(o1))>>
    /\ source = <<"a", "=", "2", "+", "3">> =>
         optimized.ops =
           <<IdentifierOp(<<"a">>), NumberOp(IntNum(5)), OperatorOp("assign")>>

(***************************************************************************)
(* Properties of the time a variable is read                               *)
(***************************************************************************)
\* C18: a variable operand is read when the operator pops it, not when its
\* Identifier opcode pushes it: an assignment to the same name between the
\* push and the pop changes what the operator sees. For a name x, a number
\* literal z and an arithmetic operator, x op (x = z) and (x = z) op x both
\* evaluate to z op z whatever x held before; on a fresh context "a+(a=5)"
\* and "(a=5)+a" both return 10.
C18_VariableIsReadWhenPopped ==
  result.called =>
    /\ \A x \in IdentifierTexts, o \in ArithmeticSymbols, z \in LiteralTexts :
         (\/ source = x \o o \o <<"(">> \o x \o <<"=">> \o z \o <<")">>
          \/ source = <<"(">> \o x \o <<"=">> \o z \o <<")">> \o o \o x) =>
           /\ ExecutedWell
           /\ result.value = Apply(o, LiteralNumber(z), LiteralNumber(z))
           /\ Registers = WithRegister(before, x, LiteralNumber(z))
    /\ source \in {<<"a", "+", "(", "a", "=", "5", ")">>,
                   <<"(", "a", "=", "5", ")", "+", "a">>} =>
         /\ ExecutedWell
         /\ result.value = IntNum(10)
         /\ Registers = WithRegister(before, <<"a">>, IntNum(5))

C18_Witness ==
  /\ source = <<"a", "+", "(", "a", "=", "5", ")">>
  /\ pc = "execute"
  /\ before = EmptyRegisters
  /\ ExecutedWell
  /\ result.value = IntNum(10)
  /\ Registers = (<<"a">> :> IntNum(5))

(***************************************************************************)
(* Properties of a context used for several calls                          *)
(***************************************************************************)
\* a new context holding the given registers
FreshHeap(registers) == [heap EXCEPT !["context"] = WithRegisters(registers)]

\* C19: the outcome of execute depends only on the program's opcodes and the
\* registers of the context at the start of the call: after any sequence of
\* successful or failed calls, a program that newProgram accepts returns the
\* same value, or fails the same way, as on a new context holding the same
\* registers.
C19_ExecuteDependsOnlyOnRegisters ==
  (pc = "execute" /\ program.exists) =>
    \E fresh \in {Execute(program.ops, "context", FreshHeap(before))} :
      /\ result.called
      /\ result.error = fresh.error
      /\ result.value = fresh.value


====
